---- MODULE Spec2Model ----
(***************************************************************************)
(* A model of dayz-map-gen: the heightmap generator (src/src/terrain.rs),  *)
(* the refiner (src/src/refiner.rs) and the biome classifier               *)
(* (src/src/biomes.rs).                                                    *)
(*                                                                         *)
(* Numbers.  f32 and f64 values are fixed-point integers: an f32 value v   *)
(* is the integer v * F32One, an f64 value the integer v * F64One, and a   *)
(* cast between the two widths rounds (as_f32) or widens (as_f64).  NaN is *)
(* one value outside every finite value; every operation propagates it as  *)
(* IEEE 754 does, and every comparison with it is false.                   *)
(***************************************************************************)
EXTENDS Integers, Sequences, FiniteSets, TLC

F32One == 10 * 10
F64One == 4 * F32One
NaN == 0 - (2 ^ 30)

IsNaN(a) == a = NaN

\* Option<T>: None, or Some(v).
None == [some |-> FALSE, val |-> << >>]
Some(v) == [some |-> TRUE, val |-> v]

---------------------------------------------------------------------------
(* Floating-point arithmetic at scale `one` (F32One or F64One).            *)

\* Each operation evaluates its operands once: F is applied to the value of v.
ByValue(v, F(_)) == CHOOSE r \in { F(x) : x \in {v} } : TRUE

FAdd(a, b) ==
    ByValue(<<a, b>>, LAMBDA t : IF IsNaN(t[1]) \/ IsNaN(t[2]) THEN NaN ELSE t[1] + t[2])
FSub(a, b) ==
    ByValue(<<a, b>>, LAMBDA t : IF IsNaN(t[1]) \/ IsNaN(t[2]) THEN NaN ELSE t[1] - t[2])
FMul(one, a, b) ==
    ByValue(<<a, b>>, LAMBDA t : IF IsNaN(t[1]) \/ IsNaN(t[2]) THEN NaN
                                 ELSE (2 * t[1] * t[2] + one) \div (2 * one))
\* a / b; 0/0 is NaN.  (A nonzero value over zero is an infinity: the one
\* division of the program whose divisor can be zero is max_amp's, below.)
FDiv(one, a, b) ==
    ByValue(<<a, b>>, LAMBDA t : IF IsNaN(t[1]) \/ IsNaN(t[2]) \/ t[2] = 0 THEN NaN
                                 ELSE (2 * t[1] * one + t[2]) \div (2 * t[2]))
FLt(a, b) == ByValue(<<a, b>>, LAMBDA t : ~IsNaN(t[1]) /\ ~IsNaN(t[2]) /\ t[1] < t[2])
FGt(a, b) == ByValue(<<a, b>>, LAMBDA t : ~IsNaN(t[1]) /\ ~IsNaN(t[2]) /\ t[1] > t[2])
\* f64::clamp / f32::clamp: NaN stays NaN.
FClamp(a, lo, hi) ==
    ByValue(a, LAMBDA v : IF IsNaN(v) THEN NaN ELSE IF v < lo THEN lo ELSE IF v > hi THEN hi ELSE v)
FAbs(a) == ByValue(a, LAMBDA v : IF IsNaN(v) THEN NaN ELSE IF v < 0 THEN 0 - v ELSE v)

RECURSIVE IntPow(_, _, _)
IntPow(one, x, n) == IF n = 0 THEN one ELSE FMul(one, x, IntPow(one, x, n - 1))

\* The square root of x >= 0, rounded down.
FSqrt(one, x) ==
    ByValue(x, LAMBDA v : CHOOSE r \in 0..(v + one) : r * r <= v * one /\ (r + 1) * (r + 1) > v * one)

\* powf(x, e): 1 for e = 0 whatever x (NaN included); NaN for a NaN base, and
\* for a negative base with a non-integer exponent.  The exponents drawn are
\* whole or half numbers (e a multiple of one/2).
powf(one, x, e) ==
    ByValue(<<x, e>>, LAMBDA t :
        IF t[2] = 0 THEN one
        ELSE IF IsNaN(t[1]) \/ IsNaN(t[2]) THEN NaN
        ELSE IF t[2] % one = 0 THEN IntPow(one, t[1], t[2] \div one)
        ELSE IF t[1] < 0 THEN NaN
        ELSE IntPow(one, FSqrt(one, t[1]), (2 * t[2]) \div one))

\* `as f32` of an f64 (round to nearest) and `as f64` of an f32 (exact).
as_f32(h) ==
    ByValue(h, LAMBDA v : IF IsNaN(v) THEN NaN ELSE (2 * v * F32One + F64One) \div (2 * F64One))
as_f64(v) == ByValue(v, LAMBDA w : IF IsNaN(w) THEN NaN ELSE w * (F64One \div F32One))

---------------------------------------------------------------------------
(* The noise crate's Perlin: a deterministic function of the seed and the  *)
(* sample point with values in [-1, 1].  The crate is not part of the      *)
(* repository; this stands for it.                                         *)

NoiseLevels == 5
PerlinGet(seed, px, py) ==
    LET k == (7 * seed + 3 * px + 5 * py + (px * py) \div F64One) % NoiseLevels
    IN  ((2 * k - (NoiseLevels - 1)) * F64One) \div (NoiseLevels - 1)

\* (perlin.get([nx / scale, ny / scale]) + 1.0) / 2.0
Sample(seed, x, y, scale) ==
    LET nx == x * F64One
        ny == y * F64One
    IN  FDiv(F64One, FAdd(PerlinGet(seed, FDiv(F64One, nx, scale), FDiv(F64One, ny, scale)),
                          F64One), 2 * F64One)

---------------------------------------------------------------------------
(* preview.rs                                                              *)

get_color_for_height(h, sea_level) ==
    IF FLt(h, FMul(F64One, sea_level, (6 * F64One) \div 10)) THEN <<0, 0, 100>>
    ELSE IF FLt(h, sea_level) THEN <<64, 164, 223>>
    ELSE IF FLt(h, F64One \div 2) THEN <<34, 139, 34>>
    ELSE IF FLt(h, (65 * F64One) \div 100) THEN <<160, 82, 45>>
    ELSE IF FLt(h, (85 * F64One) \div 100) THEN <<139, 137, 137>>
    ELSE <<255, 250, 250>>

---------------------------------------------------------------------------
(* terrain.rs: generate_map                                                *)

\* (width * height) as usize
CellCount(config) == config.width * config.height

overlay_strength_halved(config) ==
    FClamp(FDiv(F64One, config.overlay, 200 * F64One), 0, F64One)
overlay_strength(config) == FClamp(FDiv(F64One, config.overlay, 100 * F64One), 0, F64One)
overlay_old(config) == FSub(F64One, overlay_strength(config))

\* overlay_strength < 0.999 && previous_map.is_some() && len == width * height
overlay(config, previous_map) ==
    /\ FLt(overlay_strength(config), (999 * F64One) \div 1000)
    /\ previous_map.some
    /\ Len(previous_map.val) = CellCount(config)

max_mountainous(config) ==
    FSub(powf(F64One, (3 * F64One) \div 2, config.mountainous), F64One \div 2)
max_amp(config) ==
    FAdd(FAdd(FMul(F64One, max_mountainous(config), config.amp_base), config.amp_mid),
         config.amp_detail)

\* (h / max_amp).clamp(0.0, 1.0): 0/0 is NaN and stays NaN; a nonzero h over a
\* zero max_amp is an infinity, which clamps to the bound on its side.
Normalized(h, m) ==
    ByValue(<<h, m>>, LAMBDA t :
        IF IsNaN(t[1]) \/ IsNaN(t[2]) THEN NaN
        ELSE IF t[2] = 0 THEN (IF t[1] = 0 THEN NaN ELSE IF t[1] > 0 THEN F64One ELSE 0)
        ELSE FClamp(FDiv(F64One, t[1], t[2]), 0, F64One))

\* The edge strength of one axis: f is x / width or y / height.
EdgeStrength(f, border) ==
    IF FLt(f, border) THEN FSub(F64One, FDiv(F64One, f, border))
    ELSE IF FGt(f, FSub(F64One, border))
         THEN FDiv(F64One, FSub(f, FSub(F64One, border)), border)
    ELSE 0

\* The locals of the `if config.island_mode` block for cell (x, y).
IslandLocals(config, x, y) ==
    LET border == FClamp(config.island_border, F64One \div 100, F64One \div 2)
        curve == FClamp(config.island_curve, F64One, 10 * F64One)
        xf == FDiv(F64One, x * F64One, config.width * F64One)
        yf == FDiv(F64One, y * F64One, config.height * F64One)
        edge_strength_x == EdgeStrength(xf, border)
        edge_strength_y == EdgeStrength(yf, border)
        edge_strength == FAdd(edge_strength_x, edge_strength_y)
    IN  [ border |-> border, curve |-> curve, xf |-> xf, yf |-> yf,
          edge_strength_x |-> edge_strength_x, edge_strength_y |-> edge_strength_y,
          edge_strength |-> edge_strength,
          falloff |-> FSub(F64One, powf(F64One, edge_strength, curve)) ]

Falloff(config, x, y) == IslandLocals(config, x, y).falloff

\* h = h * overlay_strength + old_height * overlay_old
Blend(config, h, old_height) ==
    FAdd(FMul(F64One, h, overlay_strength(config)),
         FMul(F64One, old_height, overlay_old(config)))

\* The seed of the noise source each octave is sampled from: the one
\* `perlin`, built with set_seed(seed).
BaseSeed(seed) == seed
MidSeed(seed) == seed
DetailSeed(seed) == seed

\* h of cell (x, y) after `h = (h / max_amp).clamp(0.0, 1.0)`.
NormalizedH(config, seed, x, y) ==
    LET base == Sample(BaseSeed(seed), x, y, config.scale_base)
        mid == Sample(MidSeed(seed), x, y, config.scale_mid)
        detail == Sample(DetailSeed(seed), x, y, config.scale_detail)
        h1 == powf(F64One, FAdd(base, F64One \div 2), config.mountainous)
        h2 == FMul(F64One, FSub(h1, F64One \div 2), config.amp_base)
        h3 == FAdd(h2, FMul(F64One, config.amp_mid, mid))
        h4 == FAdd(h3, FMul(F64One, config.amp_detail, detail))
    IN  Normalized(h4, max_amp(config))

\* The f64 height of cell (x, y): the body of the row loop.
CellH(config, seed, previous_map, x, y) ==
    LET h5 == NormalizedH(config, seed, x, y)
        h6 == IF config.island_mode THEN FMul(F64One, h5, Falloff(config, x, y)) ELSE h5
    IN  IF overlay(config, previous_map)
        THEN Blend(config, h6, as_f64(previous_map.val[y * config.width + x + 1]))
        ELSE h6

\* One element of row_data: (h as f32, get_color_for_height(h, sea_level)).
RowCell(config, seed, previous_map, x, y) ==
    LET h == CellH(config, seed, previous_map, x, y)
    IN  <<as_f32(h), get_color_for_height(h, config.sea_level)>>

\* row_data of row y.
RowData(config, seed, previous_map, y) ==
    [c \in 1..config.width |-> RowCell(config, seed, previous_map, c - 1, y)]

\* The heightmap generate_map returns (cell (x, y) at y * width + x).
generate_map(config, seed, previous_map) ==
    [i \in 1..CellCount(config) |->
        RowCell(config, seed, previous_map, (i - 1) % config.width, (i - 1) \div config.width)[1]]

\* The preview generate_map returns: Rgba([r, g, b, 255]) per cell.
generate_map_preview(config, seed, previous_map) ==
    [i \in 1..CellCount(config) |->
        LET c == RowCell(config, seed, previous_map, (i - 1) % config.width,
                         (i - 1) \div config.width)[2]
        IN  <<c[1], c[2], c[3], 255>>]

---------------------------------------------------------------------------
(* biomes.rs                                                               *)

\* enum Biome, as the u8 that generate_biome_map stores.
Ocean == 0
Beach == 1
Plains == 2
Forest == 3
Mountain == 4
Snow == 5
Desert == 6
Swamp == 7
Tundra == 8
Jungle == 9
Biome == { Ocean, Beach, Plains, Forest, Mountain, Snow, Desert, Swamp, Tundra, Jungle }

get_biome_color(biome) ==
    CASE biome = Ocean -> <<0, 0, 100>>
      [] biome = Beach -> <<238, 214, 175>>
      [] biome = Plains -> <<50, 205, 50>>
      [] biome = Forest -> <<34, 139, 34>>
      [] biome = Mountain -> <<139, 137, 137>>
      [] biome = Snow -> <<255, 250, 250>>
      [] biome = Desert -> <<255, 228, 181>>
      [] biome = Swamp -> <<0, 100, 0>>
      [] biome = Tundra -> <<255, 228, 196>>
      [] biome = Jungle -> <<0, 128, 0>>

\* An f64 / f32 literal n/10.
D10(n) == (n * F64One) \div 10
S10_Hundredth(n) == (n * F32One) \div 100
S10(n) == (n * F32One) \div 10

\* choose_biome with an input that matches no arm.
choose_biome_Unmatched(temp, humidity, elev, sea_level, slope) ==
    IF FLt(elev, FMul(F32One, sea_level, S10(8))) THEN Ocean
    ELSE IF FLt(elev, sea_level) THEN Beach
    ELSE IF FLt(temp, D10(2)) THEN Snow
    ELSE IF FGt(slope, S10(5)) THEN Mountain
    ELSE IF FGt(temp, D10(7)) THEN Desert
    ELSE Jungle + 1

\* choose_biome without the `elev < sea_level` arm.
choose_biome_NoBeachArm(temp, humidity, elev, sea_level, slope) ==
    IF FLt(elev, FMul(F32One, sea_level, S10(8))) THEN Ocean
    ELSE IF FLt(temp, D10(2)) THEN Snow
    ELSE IF FGt(slope, S10(5)) THEN Mountain
    ELSE IF FGt(temp, D10(7)) THEN Desert
    ELSE Forest

\* choose_biome without the `humidity > 0.7 && temp > 0.7` arm.
choose_biome_NoHotWetArm(temp, humidity, elev, sea_level, slope) ==
    IF FLt(elev, FMul(F32One, sea_level, S10(8))) THEN Ocean
    ELSE IF FLt(elev, sea_level) THEN Beach
    ELSE IF FLt(temp, D10(2)) THEN Snow
    ELSE IF FGt(slope, S10(5)) THEN Mountain
    ELSE IF FLt(elev, FMul(F32One, sea_level, S10(12)))
         THEN (IF FGt(humidity, D10(7))
               THEN (IF FGt(temp, D10(5)) THEN Jungle ELSE Swamp)
               ELSE IF FGt(humidity, D10(4))
               THEN (IF FGt(temp, D10(5)) THEN Forest ELSE Plains)
               ELSE (IF FGt(temp, D10(7)) THEN Desert ELSE Plains))
    ELSE IF FLt(elev, FMul(F32One, sea_level, S10(15)))
         THEN (IF FGt(humidity, D10(5))
               THEN (IF FGt(temp, D10(5)) THEN Mountain ELSE Tundra)
               ELSE (IF FGt(temp, D10(7)) THEN Desert ELSE Forest))
    ELSE IF FLt(temp, D10(3)) THEN Snow
    ELSE IF FLt(temp, D10(5)) THEN Mountain
    ELSE IF FLt(temp, D10(7)) THEN Forest
    ELSE Desert

\* temp, humidity: f64; elev, sea_level, slope: f32.
choose_biome(temp, humidity, elev, sea_level, slope) ==
    IF FLt(elev, FMul(F32One, sea_level, S10(8))) THEN Ocean
    ELSE IF FLt(elev, sea_level) THEN Beach
    ELSE IF FGt(humidity, D10(7)) /\ FGt(temp, D10(7))
         THEN (IF FGt(elev, S10(8)) THEN Mountain ELSE Jungle)
    ELSE IF FLt(temp, D10(2)) THEN Snow
    ELSE IF FGt(slope, S10(5)) THEN Mountain
    ELSE IF FLt(elev, FMul(F32One, sea_level, S10(12)))
         THEN (IF FGt(humidity, D10(7))
               THEN (IF FGt(temp, D10(5)) THEN Jungle ELSE Swamp)
               ELSE IF FGt(humidity, D10(4))
               THEN (IF FGt(temp, D10(5)) THEN Forest ELSE Plains)
               ELSE (IF FGt(temp, D10(7)) THEN Desert ELSE Plains))
    ELSE IF FLt(elev, FMul(F32One, sea_level, S10(15)))
         THEN (IF FGt(humidity, D10(5))
               THEN (IF FGt(temp, D10(5)) THEN Mountain ELSE Tundra)
               ELSE (IF FGt(temp, D10(7)) THEN Desert ELSE Forest))
    ELSE IF FLt(temp, D10(3)) THEN Snow
    ELSE IF FLt(temp, D10(5)) THEN Mountain
    ELSE IF FLt(temp, D10(7)) THEN Forest
    ELSE Desert

\* slope.atan2(1.0) / PI * 2.0 for slope >= 0, as the rational s / (1 + s)
\* (0 at 0, 1/2 at 1, towards 1 as s grows, like the arctangent).
AngleFraction(s) ==
    ByValue(s, LAMBDA v : IF IsNaN(v) THEN NaN ELSE FDiv(F32One, v, FAdd(F32One, v)))

\* The slope of cell (x, y): the guard starts with a literal `false`.
Slope(config, heightmap_arg, x, y) ==
    LET idx == y * config.width + x
        h == heightmap_arg[idx + 1]
    IN  IF /\ FALSE
           /\ x > 0 /\ y > 0 /\ x < config.width - 1 /\ y < config.height - 1
        THEN LET left == heightmap_arg[idx]
                 right == heightmap_arg[idx + 2]
                 up == heightmap_arg[idx + 1 - config.width]
                 down == heightmap_arg[idx + 1 + config.width]
                 sum == FAdd(FAdd(FAbs(FSub(left, h)), FAbs(FSub(right, h))),
                             FAdd(FAbs(FSub(up, h)), FAbs(FSub(down, h))))
                 slope == FMul(F32One, FDiv(F32One, sum, 4 * F32One), 1000 * F32One)
             IN  FClamp(AngleFraction(slope), 0, F32One)
        ELSE 0

\* f32 * as f64 of the four range ends.
avg_temp(biome_config) ==
    FClamp(FDiv(F32One, FAdd(biome_config.base_temperature, 10 * F32One), 50 * F32One), 0, F32One)
avg_hum(biome_config) ==
    FClamp(FDiv(F32One, biome_config.base_humidity, 100 * F32One), 0, F32One)
temp_variation(biome_config) ==
    FClamp(FDiv(F32One, biome_config.temperature_variation, 100 * F32One), 0, F32One)
hum_variation(biome_config) ==
    FClamp(FDiv(F32One, biome_config.humidity_variation, 100 * F32One), 0, F32One)
min_temp(biome_config) == as_f64(FSub(avg_temp(biome_config), temp_variation(biome_config)))
max_temp(biome_config) == as_f64(FAdd(avg_temp(biome_config), temp_variation(biome_config)))
min_hum(biome_config) == as_f64(FSub(avg_hum(biome_config), hum_variation(biome_config)))
max_hum(biome_config) == as_f64(FAdd(avg_hum(biome_config), hum_variation(biome_config)))

\* The seeds of perlin_temp and perlin_hum.
TempSeed(seed) == seed
HumSeed(seed) == seed + 2000

\* The seed of each of the five noise channels for one base seed.
ChannelSeeds(seed) ==
    [ base |-> BaseSeed(seed), mid |-> MidSeed(seed), detail |-> DetailSeed(seed),
      temperature |-> TempSeed(seed), humidity |-> HumSeed(seed) ]

\* The arguments of choose_biome for cell (x, y): the body of the row loop up
\* to the call.
BiomeArgs(config, biome_config, heightmap_arg, seed, x, y) ==
    LET temp0 == Sample(TempSeed(seed), x, y, biome_config.scale)
        humidity0 == Sample(HumSeed(seed), x, y, biome_config.scale)
    IN  [ temp |-> FAdd(FMul(F64One, temp0,
                             FSub(max_temp(biome_config), min_temp(biome_config))),
                        min_temp(biome_config)),
          humidity |-> FAdd(FMul(F64One, humidity0,
                                 FSub(max_hum(biome_config), min_hum(biome_config))),
                            min_hum(biome_config)),
          elev |-> heightmap_arg[y * config.width + x + 1],
          sea_level |-> as_f32(FClamp(config.sea_level, 0, F64One)),
          slope |-> Slope(config, heightmap_arg, x, y) ]

\* let biome = choose_biome(temp, humidity, h, sea_level, slope);
BiomeCell(config, biome_config, heightmap_arg, seed, x, y) ==
    LET a == BiomeArgs(config, biome_config, heightmap_arg, seed, x, y)
    IN  choose_biome(a.temp, a.humidity, a.elev, a.sea_level, a.slope)

\* heightmap[idx] of row y reads past the end of the slice: the worker panics.
BiomeRowPanics(config, heightmap_arg, y) ==
    \E x \in 0..(config.width - 1) : y * config.width + x + 1 > Len(heightmap_arg)

\* <<row_biomes[x] as u8, row_colors[x]>> of row y.
BiomeRowData(config, biome_config, heightmap_arg, seed, y) ==
    [c \in 1..config.width |->
        LET b == BiomeCell(config, biome_config, heightmap_arg, seed, c - 1, y)
        IN  <<b, get_biome_color(b)>>]

\* Some row of generate_biome_map panics: the call panics.
generate_biome_map_panics(config, heightmap_arg) ==
    \E y \in 0..(config.height - 1) : BiomeRowPanics(config, heightmap_arg, y)

\* The preview generate_biome_map returns.
generate_biome_map_preview(config, biome_config, heightmap_arg, seed) ==
    [i \in 1..CellCount(config) |->
        LET c == get_biome_color(BiomeCell(config, biome_config, heightmap_arg, seed,
                                           (i - 1) % config.width, (i - 1) \div config.width))
        IN  <<c[1], c[2], c[3], 255>>]

\* The biome ids generate_biome_map returns.
generate_biome_map(config, biome_config, heightmap_arg, seed) ==
    [i \in 1..CellCount(config) |->
        BiomeCell(config, biome_config, heightmap_arg, seed,
                  (i - 1) % config.width, (i - 1) \div config.width)]

---------------------------------------------------------------------------
(* refiner.rs: refine_heightmap.  Cells are f32.                           *)

\* heightmap[i] = (heightmap[i] as f32 + config.height_offset) * config.height_coeff;
\* heightmap[i] = heightmap[i].powf(config.height_exponent);
TransformCell_CoeffFirst(v, refiner) ==
    powf(F32One, FAdd(FMul(F32One, v, refiner.height_coeff), refiner.height_offset),
         refiner.height_exponent)
TransformCell(v, refiner) ==
    powf(F32One, FMul(F32One, FAdd(v, refiner.height_offset), refiner.height_coeff),
         refiner.height_exponent)

\* for i in 0..size { ... } over the clone: the cells past size stay as they are.
Transformed(grid, refiner, size) ==
    [i \in 1..Len(grid) |-> IF i <= size THEN TransformCell(grid[i], refiner) ELSE grid[i]]

\* heightmap[i] with i past the end of the clone.
TransformPanics(grid, size) == size > Len(grid)

\* min_by / max_by fold the cells with partial_cmp(b).unwrap(): a comparison
\* with a NaN unwraps None; the outer unwrap() fails on an empty grid.  A grid
\* of one cell is never compared.
MinMaxPanics(grid) ==
    \/ Len(grid) = 0
    \/ Len(grid) >= 2 /\ \E i \in DOMAIN grid : IsNaN(grid[i])

MinOf(grid) ==
    IF Len(grid) = 1 THEN grid[1]
    ELSE CHOOSE v \in { grid[i] : i \in DOMAIN grid } : \A i \in DOMAIN grid : v <= grid[i]
MaxOf(grid) ==
    IF Len(grid) = 1 THEN grid[1]
    ELSE CHOOSE v \in { grid[i] : i \in DOMAIN grid } : \A i \in DOMAIN grid : v >= grid[i]

\* if range > 0.0
ShouldNormalize_Never(range) == FALSE
ShouldNormalize_Always(range) == TRUE
ShouldNormalize(range) == FGt(range, 0)

\* heightmap[i] = (heightmap[i] - min_height) / range;
NormalizedCell_NoOffset(v, min, range) == FDiv(F32One, v, range)
NormalizedCell(v, min, range) == FDiv(F32One, FSub(v, min), range)

\* for i in 0..size { ... }
NormalizedGrid(grid, min, range, size) ==
    [i \in 1..Len(grid) |-> IF i <= size THEN NormalizedCell(grid[i], min, range) ELSE grid[i]]

\* refine_heightmap as one call: whether it panics, and the grid it returns.
refine_heightmap_panics(grid, refiner, config) ==
    \/ TransformPanics(grid, CellCount(config))
    \/ MinMaxPanics(Transformed(grid, refiner, CellCount(config)))

refine_heightmap(grid, refiner, config) ==
    LET t == Transformed(grid, refiner, CellCount(config))
        range == FSub(MaxOf(t), MinOf(t))
    IN  IF ShouldNormalize(range)
        THEN NormalizedGrid(t, MinOf(t), range, CellCount(config))
        ELSE t

---------------------------------------------------------------------------
(* State.                                                                  *)

VARIABLES
    call,             \* the function that is running
    pc,               \* where the running call is
    config,           \* MapConfig
    biome_config,     \* BiomeConfig
    refiner_config,   \* RefinerConfig
    seed,             \* the resolved seed passed to the call
    heightmap_data,   \* Option<Vec<f32>>: the grid the caller holds (app.rs)
    heightmap_dims,   \* the <<width, height>> heightmap_data was made with
    heightmap,        \* the call's local `heightmap` buffer, returned at the end
    biome_ids,        \* generate_biome_map's local `biome_ids_buf`, returned at the end
    preview,          \* the call's local `preview` buffer
    wpc,              \* row worker y's place in the for_each closure
    row_data,         \* row worker y's local row (row_data; row_biomes and row_colors)
    mutex,            \* the holder of each of the two std::sync::Mutex, or Free
    writes,           \* history: for each output cell, the rows that wrote it, in order
    min_height,       \* refine_heightmap's local min_height, once bound
    max_height,       \* refine_heightmap's local max_height, once bound
    cell,             \* the <<x, y>> of the cell a row loop's body is run for
    choose_args,      \* the arguments of a choose_biome call
    biome,            \* Option<Biome>: what the choose_biome call returned
    island,           \* Option: the island locals of generate_map's loop body for `cell`
    current_step,     \* DayZMapApp.current_step
    biome_map,        \* DayZMapApp.biome_map: Option<Vec<u8>>
    exported,         \* the image file the export panel wrote last
    overflow_checks,  \* whether the build panics on integer overflow (debug) or wraps
    alloc_size,       \* Option<u32>: `width * height` as the call computed it
    hum_seed          \* Option<u32>: `seed + 2000` as generate_biome_map computed it

inputVars == <<call, config, biome_config, refiner_config, seed, heightmap_data, heightmap_dims>>
workerVars == <<wpc, row_data, mutex, writes>>
refineVars == <<min_height, max_height>>
cellVars == <<cell, choose_args, biome, island>>
appVars == <<current_step, biome_map, exported>>
wordVars == <<overflow_checks, alloc_size, hum_seed>>
vars == <<call, pc, config, biome_config, refiner_config, seed, heightmap_data, heightmap_dims,
          heightmap, biome_ids, preview, wpc, row_data, mutex, writes, min_height, max_height,
          cell, choose_args, biome, island, current_step, biome_map, exported,
          overflow_checks, alloc_size, hum_seed>>

Free == 0 - 1
NoMutex == [preview_buf |-> Free, grid_buf |-> Free]

---------------------------------------------------------------------------
(* Inputs.                                                                 *)

MaxDim == 2
MaxSeed == 1
NumPatterns == 2

Dims == 1..MaxDim
Seeds == 0..MaxSeed

\* <<amp_base, amp_mid, amp_detail>>: sliders 0.0..=2.0.
Amps == { <<0, 0, 0>>,
          <<F64One, F64One \div 2, F64One \div 4>>,
          <<0, 2 * F64One, 0>> }
\* <<scale_base, scale_mid, scale_detail>>: all > 0.
Scales == { <<400 * F64One, 100 * F64One, 25 * F64One>>,
            <<10 * F64One, 10 * F64One, 5 * F64One>> }
\* <<island_mode, island_border, island_curve>>
Islands == { <<FALSE, F64One \div 10, 2 * F64One>>,
             <<TRUE, F64One \div 10, 2 * F64One>>,
             <<TRUE, F64One \div 2, F64One>> }
Mountainous == { F64One \div 2, F64One, 2 * F64One }
Overlays == { 0, 50 * F64One, 100 * F64One }

MapConfig(w, h, sc, am, isl, mo, ov) ==
    [ width |-> w, height |-> h,
      scale_base |-> sc[1], amp_base |-> am[1],
      scale_mid |-> sc[2], amp_mid |-> am[2],
      scale_detail |-> sc[3], amp_detail |-> am[3],
      island_mode |-> isl[1], island_border |-> isl[2], island_curve |-> isl[3],
      sea_level |-> (4 * F64One) \div 10,
      mountainous |-> mo, overlay |-> ov,
      seed |-> 12345, use_random_seed |-> TRUE ]

Configs ==
    { MapConfig(w, h, sc, am, isl, mo, ov) :
        w \in Dims, h \in Dims, sc \in Scales, am \in Amps, isl \in Islands,
        mo \in Mountainous, ov \in Overlays }

\* A held grid of w * h cells in [0, 1] (a loaded image, an earlier map).
PatCell(pat, i) == ((pat * i * 25 + (pat - 1) * 25) % 125) * (F32One \div 100)
HeldGrid(w, h, pat) == [i \in 1..(w * h) |-> PatCell(pat, i)]

InUnitRange(v) == ~IsNaN(v) /\ 0 <= v /\ v <= F32One

\* <<base_temperature, temperature_variation, base_humidity, humidity_variation>>
Climates == { <<15 * F32One, 20 * F32One, 50 * F32One, 20 * F32One>>,
              <<40 * F32One, 100 * F32One, 100 * F32One, 100 * F32One>> }
BiomeConfig(cl, sc) ==
    [ base_temperature |-> cl[1], temperature_variation |-> cl[2],
      base_humidity |-> cl[3], humidity_variation |-> cl[4], scale |-> sc,
      seed |-> 12345, use_random_seed |-> TRUE ]
BiomeConfigs == { BiomeConfig(cl, 10 * F64One) : cl \in Climates }
DefaultBiomeConfig == BiomeConfig(<<15 * F32One, 20 * F32One, 50 * F32One, 20 * F32One>>,
                                  10000 * F64One)

\* <<height_offset, height_coeff, height_exponent>>: sliders -1.0..=1.0,
\* 0.0..=10.0, 0.0..=10.0.
RefinerConfig(off, co, ex) ==
    [ height_offset |-> off, height_coeff |-> co, height_exponent |-> ex,
      smoothness |-> 0, curve_points |-> None, paint_map_overlay |-> None ]
DefaultRefinerConfig == RefinerConfig(0, F32One, F32One)
Offsets == { 0 - F32One, 0 - (F32One \div 4), 0, F32One \div 2 }
Coeffs == { 0, F32One, 2 * F32One }
Exponents == { 0, F32One \div 2, F32One, 2 * F32One }
RefinerConfigs ==
    { RefinerConfig(off, co, ex) : off \in Offsets, co \in Coeffs, ex \in Exponents }

\* A held grid whose w * h cells are all v.
FlatGrid(w, h, v) == [i \in 1..(w * h) |-> v]

\* Arguments of choose_biome.  temp and humidity (f64) lie between
\* avg - variation and avg + variation, so from -1 to 2; elev, sea_level and
\* slope (f32) from 0 to 1.  The sea levels are those whose products with 0.8,
\* 1.2 and 1.5 are whole hundredths.
Temps == { D10(k) : k \in {0 - 10, 0, 1, 2, 3, 4, 5, 6, 7, 8, 9, 10, 20} }
Humidities == { D10(k) : k \in {0 - 10, 0, 3, 4, 5, 6, 7, 8, 9, 10, 20} }
Elevs == { (k * F32One) \div 100 : k \in {0, 10, 16, 24, 31, 32, 40, 48, 60, 75, 80, 81, 90, 100} }
SeaLevels == { S10(k) : k \in {0, 2, 4, 5, 10} }
Slopes == { S10(k) : k \in {0, 5, 6, 10} }
ChooseArgs(t, hu, e, s, sl) ==
    [ temp |-> t, humidity |-> hu, elev |-> e, sea_level |-> s, slope |-> sl ]

\* Heightmaps handed to generate_biome_map: <<width, height, cells>>.
BiomeGrids ==
    { <<d, d, FlatGrid(d, d, v)>> : d \in {2, 4}, v \in { F32One \div 10, (9 * F32One) \div 10 } }
    \cup { <<d, d, HeldGrid(d, d, pat)>> : d \in {2, 3}, pat \in 1..NumPatterns }
    \cup { <<3, 3, [i \in 1..9 |-> IF i = 5 THEN F32One ELSE F32One \div 2]>> }

\* The sea levels of the configs handed to generate_biome_map: the default,
\* the top of the slider, and one above the range the function clamps to.
BiomeSeaLevels == { D10(4), D10(10), D10(15) }

---------------------------------------------------------------------------
(* generate_map as one call.                                               *)

\* min_height and max_height are not bound outside refine_heightmap.
NoRefine ==
    /\ min_height = None
    /\ max_height = None

\* No loop body is being followed cell by cell.
NoCell ==
    /\ cell = <<0, 0>>
    /\ choose_args = None
    /\ biome = None
    /\ island = None

\* No u32 product or sum is being followed; where the arithmetic is not
\* followed the build is taken to wrap.
NoWords ==
    /\ overflow_checks = FALSE
    /\ alloc_size = None
    /\ hum_seed = None

\* DayZMapApp::default() for the fields the calls do not take as arguments.
NoApp ==
    /\ current_step = "Terrain"
    /\ biome_map = None
    /\ exported = None

NoWorkers ==
    /\ wpc = << >>
    /\ row_data = << >>
    /\ mutex = NoMutex
    /\ writes = << >>

InitGenerate ==
    /\ call = "generate_map"
    /\ pc = "call"
    /\ biome_config = DefaultBiomeConfig
    /\ refiner_config = DefaultRefinerConfig
    /\ biome_ids = << >>
    /\ NoWorkers
    /\ NoRefine
    /\ NoCell
    /\ NoApp
    /\ NoWords
    /\ config \in Configs
    /\ seed \in Seeds
    /\ \E w \in Dims, h \in Dims, pat \in 0..NumPatterns :
          IF pat = 0
          THEN heightmap_data = None /\ heightmap_dims = <<0, 0>>
          ELSE heightmap_data = Some(HeldGrid(w, h, pat)) /\ heightmap_dims = <<w, h>>
    /\ heightmap = << >>
    /\ preview = << >>

GenerateMap ==
    /\ pc = "call"
    /\ heightmap' = generate_map(config, seed, heightmap_data)
    /\ preview' = generate_map_preview(config, seed, heightmap_data)
    /\ pc' = "done"
    /\ UNCHANGED <<inputVars, wordVars, cellVars, appVars, refineVars, biome_ids, workerVars>>

NextGenerate == GenerateMap

SpecGenerate == InitGenerate /\ [][NextGenerate]_vars

---------------------------------------------------------------------------
(* The row workers of generate_map and generate_biome_map:                 *)
(* (0..height).into_par_iter().for_each(|y| ...).  Each row is one task;   *)
(* the tasks run in any order and interleave at the two lock() calls.      *)

MaxRows == 3
WorkerWidths == {1, 2}
WorkerSeeds == {0, 1}
WorkerConfigs ==
    { MapConfig(w, h, <<10 * F64One, 10 * F64One, 5 * F64One>>,
                <<F64One, F64One \div 2, F64One \div 4>>, isl, F64One, 50 * F64One) :
        w \in WorkerWidths, h \in 1..MaxRows,
        isl \in { <<FALSE, F64One \div 10, 2 * F64One>>, <<TRUE, F64One \div 2, F64One>> } }

Poisoned == 0 - 2

\* let i = (y * width + x) as usize
CellIndex_NoRow(cfg, x, y) == x
CellIndex_HeightStride(cfg, x, y) == y * cfg.height + x
CellIndex(cfg, x, y) == y * cfg.width + x

\* let mut preview_lock = preview_buf.lock().unwrap();
\* let mut heightmap_lock = heightmap_buf.lock().unwrap();
LockOrder_OddRowsGridFirst(y) ==
    IF y % 2 = 1 THEN <<"grid_buf", "preview_buf">> ELSE <<"preview_buf", "grid_buf">>
LockOrder(y) == <<"preview_buf", "grid_buf">>

\* for x in 0..width { grid_lock[i] = row_data[x].0; ... }
RECURSIVE WriteCells(_, _, _, _, _)
WriteCells(buf, cfg, y, row, x) ==
    IF x >= cfg.width THEN buf
    ELSE WriteCells([buf EXCEPT ![CellIndex(cfg, x, y) + 1] = row[x + 1][1]], cfg, y, row, x + 1)

\* for x in 0..width { ...; preview_lock.put_pixel(x, y, Rgba([r, g, b, 255])) }
RECURSIVE PutPixels(_, _, _, _, _)
PutPixels(img, cfg, y, row, x) ==
    IF x >= cfg.width THEN img
    ELSE PutPixels([img EXCEPT ![y * cfg.width + x + 1] =
                        <<row[x + 1][2][1], row[x + 1][2][2], row[x + 1][2][3], 255>>],
                   cfg, y, row, x + 1)

\* The history of the grid writes of the same loop.
RECURSIVE LogWrites(_, _, _, _)
LogWrites(log, cfg, y, x) ==
    IF x >= cfg.width THEN log
    ELSE LogWrites([log EXCEPT ![CellIndex(cfg, x, y) + 1] = Append(@, y)], cfg, y, x + 1)

\* grid_lock[i] with i past the end of the buffer: the worker panics.
WritePanics(cfg, y) ==
    \E x \in 0..(cfg.width - 1) : CellIndex(cfg, x, y) + 1 > CellCount(cfg)

InitWorkers ==
    /\ call \in {"generate_map", "generate_biome_map"}
    /\ pc = "for_each"
    /\ config \in WorkerConfigs
    /\ biome_config \in BiomeConfigs
    /\ refiner_config = DefaultRefinerConfig
    /\ NoRefine
    /\ NoCell
    /\ NoApp
    /\ NoWords
    /\ seed \in WorkerSeeds
    /\ \E pat \in 0..1 :
          IF pat = 0 /\ call = "generate_map"
          THEN heightmap_data = None /\ heightmap_dims = <<0, 0>>
          ELSE /\ heightmap_data = Some(HeldGrid(config.width, config.height, 1))
               /\ heightmap_dims = <<config.width, config.height>>
    /\ heightmap = IF call = "generate_map" THEN [i \in 1..CellCount(config) |-> 0] ELSE << >>
    /\ biome_ids = IF call = "generate_biome_map" THEN [i \in 1..CellCount(config) |-> 0]
                   ELSE << >>
    /\ preview = [i \in 1..CellCount(config) |-> <<0, 0, 0, 0>>]
    /\ wpc = [y \in 0..(config.height - 1) |-> "start"]
    /\ row_data = [y \in 0..(config.height - 1) |-> << >>]
    /\ mutex = NoMutex
    /\ writes = [i \in 1..CellCount(config) |-> << >>]

\* The loop over x that fills the row's local vectors, before any lock.
ComputeRow(y) ==
    /\ pc = "for_each"
    /\ y \in DOMAIN wpc
    /\ wpc[y] = "start"
    /\ IF call = "generate_biome_map" /\ BiomeRowPanics(config, heightmap_data.val, y)
       THEN /\ wpc' = [wpc EXCEPT ![y] = "panicked"]
            /\ UNCHANGED row_data
       ELSE /\ row_data' = [row_data EXCEPT ![y] =
                   IF call = "generate_map"
                   THEN RowData(config, seed, heightmap_data, y)
                   ELSE BiomeRowData(config, biome_config, heightmap_data.val, seed, y)]
            /\ wpc' = [wpc EXCEPT ![y] = "computed"]
    /\ UNCHANGED <<inputVars, wordVars, cellVars, appVars, refineVars, pc, heightmap, biome_ids, preview, mutex, writes>>

\* The first lock().unwrap(): blocks while the mutex is held, panics if poisoned.
AcquireFirst(y) ==
    /\ pc = "for_each"
    /\ y \in DOMAIN wpc
    /\ wpc[y] = "computed"
    /\ LET m == LockOrder(y)[1]
       IN  \/ /\ mutex[m] = Free
              /\ mutex' = [mutex EXCEPT ![m] = y]
              /\ wpc' = [wpc EXCEPT ![y] = "locked_first"]
           \/ /\ mutex[m] = Poisoned
              /\ wpc' = [wpc EXCEPT ![y] = "panicked"]
              /\ UNCHANGED mutex
    /\ UNCHANGED <<inputVars, wordVars, cellVars, appVars, refineVars, pc, heightmap, biome_ids, preview, row_data, writes>>

\* The second lock().unwrap().
AcquireSecond(y) ==
    /\ pc = "for_each"
    /\ y \in DOMAIN wpc
    /\ wpc[y] = "locked_first"
    /\ LET m == LockOrder(y)[2]
       IN  \/ /\ mutex[m] = Free
              /\ mutex' = [mutex EXCEPT ![m] = y]
              /\ wpc' = [wpc EXCEPT ![y] = "locked_both"]
           \/ /\ mutex[m] = Poisoned
              /\ wpc' = [wpc EXCEPT ![y] = "panicked"]
              /\ mutex' = [mutex EXCEPT ![LockOrder(y)[1]] = Poisoned]
    /\ UNCHANGED <<inputVars, wordVars, cellVars, appVars, refineVars, pc, heightmap, biome_ids, preview, row_data, writes>>

\* The write loop under both locks; both guards are dropped at the end of the
\* closure.  A panic inside it poisons both mutexes.
WriteRow(y) ==
    /\ pc = "for_each"
    /\ y \in DOMAIN wpc
    /\ wpc[y] = "locked_both"
    /\ IF WritePanics(config, y)
       THEN /\ wpc' = [wpc EXCEPT ![y] = "panicked"]
            /\ mutex' = [preview_buf |-> Poisoned, grid_buf |-> Poisoned]
            /\ UNCHANGED <<heightmap, biome_ids, preview, writes>>
       ELSE /\ IF call = "generate_map"
               THEN /\ heightmap' = WriteCells(heightmap, config, y, row_data[y], 0)
                    /\ UNCHANGED biome_ids
               ELSE /\ biome_ids' = WriteCells(biome_ids, config, y, row_data[y], 0)
                    /\ UNCHANGED heightmap
            /\ preview' = PutPixels(preview, config, y, row_data[y], 0)
            /\ writes' = LogWrites(writes, config, y, 0)
            /\ mutex' = NoMutex
            /\ wpc' = [wpc EXCEPT ![y] = "done"]
    /\ UNCHANGED <<inputVars, wordVars, cellVars, appVars, refineVars, pc, row_data>>

Worker(y) == ComputeRow(y) \/ AcquireFirst(y) \/ AcquireSecond(y) \/ WriteRow(y)

\* for_each returns when every row's task has ended; a task's panic is
\* propagated to the caller.
Join ==
    /\ pc = "for_each"
    /\ \A y \in DOMAIN wpc : wpc[y] \in {"done", "panicked"}
    /\ pc' = IF \E y \in DOMAIN wpc : wpc[y] = "panicked" THEN "panicked" ELSE "done"
    /\ UNCHANGED <<inputVars, wordVars, cellVars, appVars, refineVars, heightmap, biome_ids, preview, workerVars>>

NextWorkers == (\E y \in 0..(MaxRows - 1) : Worker(y)) \/ Join

SpecWorkers == InitWorkers /\ [][NextWorkers]_vars

\* The threads of the pool are scheduled fairly: a task that can take its
\* next step eventually takes it.
SpecWorkersFair ==
    /\ SpecWorkers
    /\ \A y \in 0..(MaxRows - 1) : WF_vars(Worker(y))
    /\ WF_vars(Join)

---------------------------------------------------------------------------
(* refine_heightmap, step by step: the transform pass, the min/max folds,  *)
(* the normalisation pass.                                                 *)

RefineMapConfigs ==
    { MapConfig(w, h, <<400 * F64One, 100 * F64One, 25 * F64One>>,
                <<F64One, F64One \div 2, F64One \div 4>>,
                <<FALSE, F64One \div 10, 2 * F64One>>, F64One, 50 * F64One) :
        w \in Dims, h \in Dims }

InitRefine ==
    /\ call = "refine_heightmap"
    /\ pc = "call"
    /\ config \in RefineMapConfigs
    /\ biome_config = DefaultBiomeConfig
    /\ refiner_config \in RefinerConfigs
    /\ seed = 0
    /\ \E w \in Dims, h \in Dims, pat \in 0..NumPatterns :
          /\ heightmap_data = Some(IF pat = 0 THEN FlatGrid(w, h, F32One \div 2)
                                   ELSE HeldGrid(w, h, pat))
          /\ heightmap_dims = <<w, h>>
    /\ heightmap = << >>
    /\ biome_ids = << >>
    /\ preview = << >>
    /\ NoWorkers
    /\ NoRefine
    /\ NoCell
    /\ NoApp
    /\ NoWords

\* let mut heightmap = heightmap.clone(); and the transform loop.
RefineTransform ==
    /\ call = "refine_heightmap"
    /\ pc = "call"
    /\ heightmap' = Transformed(heightmap_data.val, refiner_config, CellCount(config))
    /\ pc' = IF TransformPanics(heightmap_data.val, CellCount(config))
             THEN "panicked" ELSE "transformed"
    /\ UNCHANGED <<inputVars, wordVars, cellVars, appVars, refineVars, biome_ids, preview, workerVars>>

\* let min_height = ...; let max_height = ...;
RefineMinMax ==
    /\ call = "refine_heightmap"
    /\ pc = "transformed"
    /\ IF MinMaxPanics(heightmap)
       THEN /\ pc' = "panicked"
            /\ UNCHANGED refineVars
       ELSE /\ min_height' = Some(MinOf(heightmap))
            /\ max_height' = Some(MaxOf(heightmap))
            /\ pc' = "minmax"
    /\ UNCHANGED <<inputVars, wordVars, cellVars, appVars, heightmap, biome_ids, preview, workerVars>>

\* let range = max_height - min_height; if range > 0.0 { ... }; heightmap
RefineNormalize ==
    /\ call = "refine_heightmap"
    /\ pc = "minmax"
    /\ LET range == FSub(max_height.val, min_height.val)
       IN  heightmap' = IF ShouldNormalize(range)
                        THEN NormalizedGrid(heightmap, min_height.val, range, CellCount(config))
                        ELSE heightmap
    /\ pc' = "done"
    /\ UNCHANGED <<inputVars, wordVars, cellVars, appVars, refineVars, biome_ids, preview, workerVars>>

NextRefine == RefineTransform \/ RefineMinMax \/ RefineNormalize

SpecRefine == InitRefine /\ [][NextRefine]_vars

---------------------------------------------------------------------------
(* The classifier: choose_biome called on its own, and the body of          *)
(* generate_biome_map's row loop followed cell by cell (rows in order).     *)

InitChoose ==
    /\ call = "choose_biome"
    /\ pc = "call"
    /\ config \in RefineMapConfigs
    /\ config.width = 1 /\ config.height = 1
    /\ biome_config = DefaultBiomeConfig
    /\ refiner_config = DefaultRefinerConfig
    /\ seed = 0
    /\ heightmap_data = None
    /\ heightmap_dims = <<0, 0>>
    /\ heightmap = << >>
    /\ biome_ids = << >>
    /\ preview = << >>
    /\ NoWorkers
    /\ NoRefine
    /\ NoApp
    /\ NoWords
    /\ cell = <<0, 0>>
    /\ \E t \in Temps, hu \in Humidities, e \in Elevs, s \in SeaLevels, sl \in Slopes :
          choose_args = Some(ChooseArgs(t, hu, e, s, sl))
    /\ biome = None
    /\ island = None

InitBiomeLoop ==
    /\ call = "generate_biome_map"
    /\ pc = "loop"
    /\ \E g \in BiomeGrids, sl \in BiomeSeaLevels :
          /\ config = [MapConfig(g[1], g[2], <<400 * F64One, 100 * F64One, 25 * F64One>>,
                                 <<F64One, F64One \div 2, F64One \div 4>>,
                                 <<FALSE, F64One \div 10, 2 * F64One>>, F64One, 50 * F64One)
                           EXCEPT !.sea_level = sl]
          /\ heightmap_data = Some(g[3])
          /\ heightmap_dims = <<g[1], g[2]>>
    /\ biome_config \in BiomeConfigs \cup {DefaultBiomeConfig}
    /\ refiner_config = DefaultRefinerConfig
    /\ seed \in Seeds
    /\ heightmap = << >>
    /\ biome_ids = [i \in 1..CellCount(config) |-> 0]
    /\ preview = << >>
    /\ NoWorkers
    /\ NoRefine
    /\ NoApp
    /\ NoWords
    /\ NoCell

InitClassify == InitChoose \/ InitBiomeLoop

\* One call of choose_biome.
ChooseBiome ==
    /\ call = "choose_biome"
    /\ pc = "call"
    /\ LET a == choose_args.val
       IN  biome' = Some(choose_biome(a.temp, a.humidity, a.elev, a.sea_level, a.slope))
    /\ pc' = "done"
    /\ UNCHANGED <<inputVars, wordVars, appVars, refineVars, workerVars, cell, choose_args, island,
                   heightmap, biome_ids, preview>>

\* The body of `for x in 0..width` for `cell`.
BiomeLoopBody ==
    /\ call = "generate_biome_map"
    /\ pc = "loop"
    /\ LET x == cell[1]
           y == cell[2]
           idx == y * config.width + x
       IN  IF idx + 1 > Len(heightmap_data.val)
           THEN /\ pc' = "panicked"
                /\ UNCHANGED <<choose_args, biome, biome_ids>>
           ELSE LET a == BiomeArgs(config, biome_config, heightmap_data.val, seed, x, y)
                    b == choose_biome(a.temp, a.humidity, a.elev, a.sea_level, a.slope)
                IN  /\ choose_args' = Some(a)
                    /\ biome' = Some(b)
                    /\ biome_ids' = [biome_ids EXCEPT ![idx + 1] = b]
                    /\ pc' = "pushed"
    /\ UNCHANGED <<inputVars, wordVars, appVars, refineVars, workerVars, cell, island, heightmap, preview>>

\* The step to the next x, to the next row, or out of the loops.
BiomeLoopNext ==
    /\ call = "generate_biome_map"
    /\ pc = "pushed"
    /\ IF cell[1] + 1 < config.width
       THEN cell' = <<cell[1] + 1, cell[2]>> /\ pc' = "loop"
       ELSE IF cell[2] + 1 < config.height
       THEN cell' = <<0, cell[2] + 1>> /\ pc' = "loop"
       ELSE cell' = cell /\ pc' = "done"
    /\ UNCHANGED <<inputVars, wordVars, appVars, refineVars, workerVars, choose_args, biome, island,
                   heightmap, biome_ids, preview>>

NextClassify == ChooseBiome \/ BiomeLoopBody \/ BiomeLoopNext

SpecClassify == InitClassify /\ [][NextClassify]_vars

---------------------------------------------------------------------------
(* The island block of generate_map's loop body, for one cell.             *)

MaxIslandDim == 4

\* island_border: slider 0.01..=0.5; island_curve: slider 1.0..=10.0.
IslandBorders == { F64One \div 100, F64One \div 10, F64One \div 4, F64One \div 2 }
IslandCurves == { F64One, 2 * F64One, 10 * F64One }
IslandConfigs ==
    { MapConfig(w, h, <<10 * F64One, 10 * F64One, 5 * F64One>>,
                <<F64One, F64One \div 2, F64One \div 4>>, <<mode, b, c>>, F64One,
                100 * F64One) :
        w \in 1..MaxIslandDim, h \in 1..MaxIslandDim, mode \in BOOLEAN,
        b \in IslandBorders, c \in IslandCurves }

InitIsland ==
    /\ call = "generate_map"
    /\ pc = "island"
    /\ config \in IslandConfigs
    /\ ~config.island_mode =>
          (config.island_border = F64One \div 10 /\ config.island_curve = 2 * F64One)
    /\ biome_config = DefaultBiomeConfig
    /\ refiner_config = DefaultRefinerConfig
    /\ seed \in Seeds
    /\ heightmap_data = None
    /\ heightmap_dims = <<0, 0>>
    /\ heightmap = << >>
    /\ biome_ids = << >>
    /\ preview = << >>
    /\ NoWorkers
    /\ NoRefine
    /\ NoApp
    /\ NoWords
    /\ cell \in (0..(config.width - 1)) \X (0..(config.height - 1))
    /\ choose_args = None
    /\ biome = None
    /\ island = None

\* if config.island_mode { ...; h *= falloff; } for `cell`.
IslandBlock ==
    /\ call = "generate_map"
    /\ pc = "island"
    /\ LET h == NormalizedH(config, seed, cell[1], cell[2])
       IN  island' =
              IF config.island_mode
              THEN Some([ locals |-> IslandLocals(config, cell[1], cell[2]),
                          h_before |-> h,
                          h |-> FMul(F64One, h, Falloff(config, cell[1], cell[2])) ])
              ELSE Some([ locals |-> None, h_before |-> h, h |-> h ])
    /\ pc' = "done"
    /\ UNCHANGED <<inputVars, wordVars, appVars, refineVars, workerVars, cell, choose_args, biome,
                   heightmap, biome_ids, preview>>

NextIsland == IslandBlock

SpecIsland == InitIsland /\ [][NextIsland]_vars

---------------------------------------------------------------------------
(* app.rs: DayZMapApp.  One action per button or text field; a handler that *)
(* panics ends the application.                                            *)

MaxAppDim == 1

\* MapConfig::default(), with the grid scaled down to MaxAppDim cells a side.
DefaultMapConfig ==
    MapConfig(MaxAppDim, MaxAppDim, <<400 * F64One, 100 * F64One, 25 * F64One>>,
              <<F64One, F64One \div 2, (15 * F64One) \div 100>>,
              <<TRUE, F64One \div 10, 2 * F64One>>, F64One, 100 * F64One)

\* The locals of the calls, which the application does not hold.
callLocals == <<call, heightmap, biome_ids, workerVars, refineVars, cellVars>>

\* The preview the Load Map and Apply Refinement handlers draw.
HeightPreview(grid, w, h, sea_level) ==
    [i \in 1..(w * h) |->
        LET c == get_color_for_height(as_f64(grid[i]), sea_level)
        IN  <<c[1], c[2], c[3], 255>>]

InitApp ==
    /\ call = "app"
    /\ pc = "idle"
    /\ config = DefaultMapConfig
    /\ biome_config = DefaultBiomeConfig
    /\ refiner_config = DefaultRefinerConfig
    /\ seed = 0
    /\ heightmap_data = None
    /\ heightmap_dims = <<0, 0>>
    /\ heightmap = << >>
    /\ biome_ids = << >>
    /\ preview = None
    /\ NoWorkers
    /\ NoRefine
    /\ NoCell
    /\ NoApp
    /\ NoWords

\* enum GenerationStep
GenerationStep == { "Terrain", "Refinement", "Biomes", "Water", "Objects", "Export" }

\* The match of the Next button.
NextStep_SkipsWater(step) ==
    CASE step = "Terrain" -> "Refinement"
      [] step = "Refinement" -> "Biomes"
      [] step = "Biomes" -> "Objects"
      [] step = "Water" -> "Objects"
      [] step = "Objects" -> "Export"
      [] OTHER -> step
NextStep(step) ==
    CASE step = "Terrain" -> "Refinement"
      [] step = "Refinement" -> "Biomes"
      [] step = "Biomes" -> "Water"
      [] step = "Water" -> "Objects"
      [] step = "Objects" -> "Export"
      [] OTHER -> step

\* The match of the Back button.
PrevStep(step) ==
    CASE step = "Refinement" -> "Terrain"
      [] step = "Biomes" -> "Refinement"
      [] step = "Water" -> "Biomes"
      [] step = "Objects" -> "Water"
      [] step = "Export" -> "Objects"
      [] OTHER -> step

Next_ ==
    /\ call = "app" /\ pc = "idle"
    /\ current_step # "Export"
    /\ current_step' = NextStep(current_step)
    /\ UNCHANGED <<callLocals, wordVars, pc, config, biome_config, refiner_config, seed, heightmap_data,
                   heightmap_dims, preview, biome_map, exported>>

Back ==
    /\ call = "app" /\ pc = "idle"
    /\ current_step # "Terrain"
    /\ current_step' = PrevStep(current_step)
    /\ UNCHANGED <<callLocals, wordVars, pc, config, biome_config, refiner_config, seed, heightmap_data,
                   heightmap_dims, preview, biome_map, exported>>

\* The width text field: any text that parses as a u32 is stored.
EditWidth(w) ==
    /\ call = "app" /\ pc = "idle"
    /\ current_step = "Terrain"
    /\ w # config.width
    /\ config' = [config EXCEPT !.width = w]
    /\ UNCHANGED <<callLocals, wordVars, pc, biome_config, refiner_config, seed, heightmap_data,
                   heightmap_dims, preview, appVars>>

EditHeight(h) ==
    /\ call = "app" /\ pc = "idle"
    /\ current_step = "Terrain"
    /\ h # config.height
    /\ config' = [config EXCEPT !.height = h]
    /\ UNCHANGED <<callLocals, wordVars, pc, biome_config, refiner_config, seed, heightmap_data,
                   heightmap_dims, preview, appVars>>

\* The factors of the Quick Resize buttons, as <<numerator, denominator>>.
QuickSizes == { <<1, 4>>, <<1, 2>>, <<2, 1>>, <<4, 1>> }

\* (v as f32 * size) as u32, and the same for an f64 scale.
Resized(v, size) == (v * size[1]) \div size[2]

\* A Quick Resize button.  The grid stays within MaxAppDim cells a side and
\* the scales between half their defaults and their defaults.
QuickResize(size) ==
    /\ call = "app" /\ pc = "idle"
    /\ current_step = "Terrain"
    /\ Resized(config.width, size) <= MaxAppDim
    /\ Resized(config.height, size) <= MaxAppDim
    /\ Resized(config.scale_base, size) <= DefaultMapConfig.scale_base
    /\ 2 * Resized(config.scale_base, size) >= DefaultMapConfig.scale_base
    /\ config' = [config EXCEPT !.width = Resized(@, size),
                                !.height = Resized(@, size),
                                !.scale_base = Resized(@, size),
                                !.scale_mid = Resized(@, size),
                                !.scale_detail = Resized(@, size)]
    /\ UNCHANGED <<callLocals, wordVars, pc, biome_config, refiner_config, seed, heightmap_data,
                   heightmap_dims, preview, appVars>>

\* The values rand::random::<u32>() returns in the application.
AppSeeds == { 0, MaxSeed }

\* let seed = if cfg.use_random_seed { cfg.seed = new_seed; new_seed } else
\* { cfg.seed }, for a MapConfig or a BiomeConfig: the seed the action passes
\* on and the seed the config holds after it.
ResolvedSeed(cfg, new_seed) == IF cfg.use_random_seed THEN new_seed ELSE cfg.seed
StoredSeed_Kept(cfg, new_seed) == cfg.seed
StoredSeed(cfg, new_seed) == IF cfg.use_random_seed THEN new_seed ELSE cfg.seed

\* The Use Random Seed checkbox of the terrain panel.
ToggleRandomSeed ==
    /\ call = "app" /\ pc = "idle"
    /\ current_step = "Terrain"
    /\ config' = [config EXCEPT !.use_random_seed = ~@]
    /\ UNCHANGED <<callLocals, wordVars, pc, biome_config, refiner_config, seed, heightmap_data,
                   heightmap_dims, preview, appVars>>

\* The Seed drag value of the terrain panel, shown with the checkbox clear.
DragSeed(s) ==
    /\ call = "app" /\ pc = "idle"
    /\ current_step = "Terrain"
    /\ ~config.use_random_seed
    /\ config' = [config EXCEPT !.seed = s]
    /\ UNCHANGED <<callLocals, wordVars, pc, biome_config, refiner_config, seed, heightmap_data,
                   heightmap_dims, preview, appVars>>

\* The Generate Map button.  `seed` is the seed handed to generate_map.
AppGenerateMap ==
    /\ call = "app" /\ pc = "idle"
    /\ current_step = "Terrain"
    /\ \E new_seed \in AppSeeds :
          /\ config' = [config EXCEPT !.seed = StoredSeed(config, new_seed)]
          /\ seed' = ResolvedSeed(config, new_seed)
          /\ heightmap_data' = Some(generate_map(config', seed', heightmap_data))
          /\ preview' = Some(generate_map_preview(config', seed', heightmap_data))
    /\ heightmap_dims' = <<config.width, config.height>>
    /\ UNCHANGED <<callLocals, wordVars, pc, biome_config, refiner_config, appVars>>

\* The Load Map button with a file picked and opened: an image of w x h pixels.
LoadMap(w, h, pat) ==
    /\ call = "app" /\ pc = "idle"
    /\ current_step = "Terrain"
    /\ config' = [config EXCEPT !.width = w, !.height = h]
    /\ heightmap_data' = Some(HeldGrid(w, h, pat))
    /\ heightmap_dims' = <<w, h>>
    /\ preview' = Some(HeightPreview(HeldGrid(w, h, pat), w, h, config.sea_level))
    /\ UNCHANGED <<callLocals, wordVars, pc, biome_config, refiner_config, seed, appVars>>

\* The Apply Refinement button: self.heightmap_data.as_ref().unwrap(), the
\* call, the preview loop, and the store.
ApplyRefinement ==
    /\ call = "app" /\ pc = "idle"
    /\ current_step = "Refinement"
    /\ IF \/ ~heightmap_data.some
          \/ refine_heightmap_panics(heightmap_data.val, refiner_config, config)
       THEN /\ pc' = "panicked"
            /\ UNCHANGED <<heightmap_data, preview>>
       ELSE LET refined_heightmap == refine_heightmap(heightmap_data.val, refiner_config, config)
            IN  /\ heightmap_data' = Some(refined_heightmap)
                /\ preview' = Some(HeightPreview(refined_heightmap, config.width, config.height,
                                                 config.sea_level))
                /\ pc' = pc
    /\ UNCHANGED <<callLocals, wordVars, config, biome_config, refiner_config, seed, heightmap_dims,
                   appVars>>

\* The value rand::random::<u32>() returns for the biome seed.
AppBiomeSeeds == { 0 }

\* The Use Random Seed checkbox of the biome panel.
ToggleBiomeRandomSeed ==
    /\ call = "app" /\ pc = "idle"
    /\ current_step = "Biomes"
    /\ biome_config' = [biome_config EXCEPT !.use_random_seed = ~@]
    /\ UNCHANGED <<callLocals, wordVars, pc, config, refiner_config, seed, heightmap_data,
                   heightmap_dims, preview, appVars>>

\* The Seed drag value of the biome panel, shown with the checkbox clear.
DragBiomeSeed(s) ==
    /\ call = "app" /\ pc = "idle"
    /\ current_step = "Biomes"
    /\ ~biome_config.use_random_seed
    /\ biome_config' = [biome_config EXCEPT !.seed = s]
    /\ UNCHANGED <<callLocals, wordVars, pc, config, refiner_config, seed, heightmap_data,
                   heightmap_dims, preview, appVars>>

\* The Generate Biome Map button: nothing but a label without a heightmap.
\* `seed` is the seed handed to generate_biome_map.
AppGenerateBiomeMap ==
    /\ call = "app" /\ pc = "idle"
    /\ current_step = "Biomes"
    /\ heightmap_data.some
    /\ \E new_seed \in AppBiomeSeeds :
          /\ biome_config' = [biome_config EXCEPT !.seed = StoredSeed(biome_config, new_seed)]
          /\ seed' = ResolvedSeed(biome_config, new_seed)
          /\ IF generate_biome_map_panics(config, heightmap_data.val)
             THEN /\ pc' = "panicked"
                  /\ UNCHANGED <<biome_map, preview>>
             ELSE /\ biome_map' = Some(generate_biome_map(config, biome_config',
                                                          heightmap_data.val, seed'))
                  /\ preview' = Some(generate_biome_map_preview(config, biome_config',
                                                                heightmap_data.val, seed'))
                  /\ pc' = pc
    /\ UNCHANGED <<callLocals, wordVars, config, refiner_config, heightmap_data,
                   heightmap_dims, current_step, exported>>

\* The Export Preview button.
ExportPreview ==
    /\ call = "app" /\ pc = "idle"
    /\ current_step = "Export"
    /\ preview.some
    /\ exported' = Some("export_preview.png")
    /\ UNCHANGED <<callLocals, wordVars, pc, config, biome_config, refiner_config, seed, heightmap_data,
                   heightmap_dims, preview, current_step, biome_map>>

\* img.put_pixel(i % w, i / w, ..) for every cell of the held grid: i % w
\* panics for w = 0, put_pixel for a row past the image's height.
ExportHeightmapPanics(data, w, h) ==
    \E i \in 0..(Len(data) - 1) : w = 0 \/ i \div w >= h

\* The Export Heightmap button.
ExportHeightmap ==
    /\ call = "app" /\ pc = "idle"
    /\ current_step = "Export"
    /\ heightmap_data.some
    /\ IF ExportHeightmapPanics(heightmap_data.val, config.width, config.height)
       THEN /\ pc' = "panicked"
            /\ UNCHANGED exported
       ELSE /\ exported' = Some("export_heightmap.png")
            /\ pc' = pc
    /\ UNCHANGED <<callLocals, wordVars, config, biome_config, refiner_config, seed, heightmap_data,
                   heightmap_dims, preview, current_step, biome_map>>

NextApp ==
    \/ Next_
    \/ Back
    \/ \E w \in 0..MaxAppDim : EditWidth(w)
    \/ \E h \in 0..MaxAppDim : EditHeight(h)
    \/ \E size \in QuickSizes : QuickResize(size)
    \/ AppGenerateMap
    \/ \E w \in 1..MaxAppDim, h \in 1..MaxAppDim : LoadMap(w, h, 1)
    \/ ApplyRefinement
    \/ AppGenerateBiomeMap
    \/ ExportPreview
    \/ ExportHeightmap

SpecApp == InitApp /\ [][NextApp]_vars

\* The seed controls, the two generators they feed and the navigation between
\* their panels, with the map at its default size.
NextSeeds ==
    \/ Next_
    \/ Back
    \/ ToggleRandomSeed
    \/ \E s \in AppSeeds : DragSeed(s)
    \/ AppGenerateMap
    \/ ToggleBiomeRandomSeed
    \/ \E s \in AppSeeds : DragBiomeSeed(s)
    \/ AppGenerateBiomeMap

SpecSeeds == InitApp /\ [][NextSeeds]_vars

---------------------------------------------------------------------------
(* u32 arithmetic at full width: `width * height` of generate_map and      *)
(* generate_biome_map and `seed + 2000` of generate_biome_map.  A u32 word  *)
(* is held as <<high, low>>, its two 16-bit halves, and products and sums  *)
(* are computed half by half, so they are exact.  A build with overflow    *)
(* checks (cargo's dev profile) panics where one without (the release      *)
(* profile) wraps; the repository fixes neither.                           *)

Half == 2 ^ 16

\* The word of a number below 2^31.
U32(n) == <<n \div Half, n % Half>>
U32Max == <<Half - 1, Half - 1>>

\* The product of two halves, as <<high, low>>.
HalfMul(a, b) ==
    LET p1 == (a \div 256) * b
        p0 == (a % 256) * b
        low == (p1 % 256) * 256 + p0
    IN  <<p1 \div 256 + low \div Half, low % Half>>

\* The exact product of two words, as four halves, highest first.
WideMul(a, b) ==
    LET ll == HalfMul(a[2], b[2])
        lh == HalfMul(a[2], b[1])
        hl == HalfMul(a[1], b[2])
        hh == HalfMul(a[1], b[1])
        t1 == ll[1] + lh[2] + hl[2]
        t2 == lh[1] + hl[1] + hh[2] + t1 \div Half
    IN  <<hh[1] + t2 \div Half, t2 % Half, t1 % Half, ll[2]>>

\* The exact sum of two words, as <<carry, high, low>>.
WideAdd(a, b) ==
    LET low == a[2] + b[2]
        high == a[1] + b[1] + low \div Half
    IN  <<high \div Half, high % Half, low % Half>>

\* a * b and a + b in u32: <<the wrapped result, whether it overflowed>>.
overflowing_mul(a, b) ==
    LET p == WideMul(a, b)
    IN  <<(<<p[3], p[4]>>), p[1] # 0 \/ p[2] # 0>>
overflowing_add(a, b) ==
    LET t == WideAdd(a, b)
    IN  <<(<<t[2], t[3]>>), t[1] # 0>>

\* Widths and heights the text fields and Quick Resize can give, and seeds
\* rand::random::<u32>() can return.
WordDims == { U32(0), U32(1), U32(512), U32(Half - 1), U32(Half), U32(2 * Half), U32Max }
WordSeeds == { U32(0), U32(12345), <<Half - 1, Half - 2001>>, <<Half - 1, Half - 2000>>, U32Max }

InitWords ==
    /\ call \in {"generate_map", "generate_biome_map"}
    /\ pc = "call"
    /\ \E w \in WordDims, h \in WordDims :
          config = [DefaultMapConfig EXCEPT !.width = w, !.height = h]
    /\ biome_config = DefaultBiomeConfig
    /\ refiner_config = DefaultRefinerConfig
    /\ seed \in WordSeeds
    /\ heightmap_data = None
    /\ heightmap_dims = <<0, 0>>
    /\ heightmap = << >>
    /\ biome_ids = << >>
    /\ preview = << >>
    /\ overflow_checks \in BOOLEAN
    /\ alloc_size = None
    /\ hum_seed = None
    /\ NoWorkers
    /\ NoRefine
    /\ NoCell
    /\ NoApp

\* (width * height) as usize: the length of generate_map's heightmap and
\* generate_biome_map's `size`.
ComputeSize ==
    /\ call \in {"generate_map", "generate_biome_map"}
    /\ pc = "call"
    /\ LET m == overflowing_mul(config.width, config.height)
       IN  IF m[2] /\ overflow_checks
           THEN /\ pc' = "panicked"
                /\ UNCHANGED alloc_size
           ELSE /\ alloc_size' = Some(m[1])
                /\ pc' = IF call = "generate_map" THEN "done" ELSE "sized"
    /\ UNCHANGED <<inputVars, cellVars, appVars, refineVars, workerVars, overflow_checks,
                   hum_seed, heightmap, biome_ids, preview>>

\* Perlin::new().set_seed(seed + 2000)
SeedHumidity ==
    /\ call = "generate_biome_map"
    /\ pc = "sized"
    /\ LET a == overflowing_add(seed, U32(2000))
       IN  IF a[2] /\ overflow_checks
           THEN /\ pc' = "panicked"
                /\ UNCHANGED hum_seed
           ELSE /\ hum_seed' = Some(a[1])
                /\ pc' = "done"
    /\ UNCHANGED <<inputVars, cellVars, appVars, refineVars, workerVars, overflow_checks,
                   alloc_size, heightmap, biome_ids, preview>>

NextWords == ComputeSize \/ SeedHumidity

SpecWords == InitWords /\ [][NextWords]_vars

---------------------------------------------------------------------------
(* Claims about generate_map (SpecGenerate).                               *)

HeldInUnitRange ==
    heightmap_data.some => \A i \in DOMAIN heightmap_data.val : InUnitRange(heightmap_data.val[i])

\* C1: for every valid config, every seed and every previous map with cells
\* in [0,1], every cell of the heightmap generate_map returns is in [0,1]
\* (never negative, never above 1, never NaN).
C1_HeightsInUnitRange ==
    (pc = "done" /\ HeldInUnitRange) =>
        \A i \in DOMAIN heightmap : InUnitRange(heightmap[i])

\* C5: with overlay = 100 the result is the freshly generated map, whatever
\* previous map is supplied (none, same size, another size).
C5_FullOverlayIsFresh ==
    (pc = "done" /\ config.overlay = 100 * F64One) =>
        heightmap = generate_map(config, seed, None)

C5_Witness ==
    /\ pc = "done"
    /\ config.overlay = 100 * F64One
    /\ heightmap_data.some
    /\ Len(heightmap_data.val) = CellCount(config)
    /\ heightmap_data.val # heightmap

\* C6: with overlay = 0 and a previous map of width * height cells, every
\* cell returned equals the previous map's cell, for every seed and every
\* other config value.
C6_ZeroOverlayIsPrevious ==
    (/\ pc = "done"
     /\ config.overlay = 0
     /\ heightmap_data.some
     /\ Len(heightmap_data.val) = CellCount(config)) =>
        heightmap = heightmap_data.val

\* C7: a previous map made with another width or height is never blended:
\* the call returns the grid it returns with no previous map.
C7_OtherDimsIgnored ==
    (/\ pc = "done"
     /\ heightmap_data.some
     /\ heightmap_dims # <<config.width, config.height>>) =>
        heightmap = generate_map(config, seed, None)

---------------------------------------------------------------------------
(* Claims about the row workers (SpecWorkers, SpecWorkersFair).            *)

\* C2: generate_map is deterministic under parallel execution: in whatever
\* order the row workers run and take the locks, the heightmap returned is
\* the same function of config, seed and previous map, so two calls with
\* identical arguments return identical heightmaps.
C2_Deterministic ==
    (call = "generate_map" /\ pc = "done") =>
        heightmap = generate_map(config, seed, heightmap_data)

C2_Witness ==
    /\ call = "generate_map"
    /\ pc = "done"
    /\ config.height >= 2
    /\ config.width >= 2
    /\ heightmap_data.some
    /\ \E i \in DOMAIN heightmap : \E j \in DOMAIN heightmap : heightmap[i] # heightmap[j]

RowOfCell(i) == (i - 1) \div config.width

\* C3: in both calls output cell y * width + x is written only by the worker
\* of row y, no cell is ever written twice, and when the call returns every
\* one of the width * height cells has been written exactly once (biome ids
\* being labels 0..9).
C3_RowsWriteOwnCells ==
    /\ \A i \in DOMAIN writes :
          /\ Len(writes[i]) <= 1
          /\ \A k \in DOMAIN writes[i] : writes[i][k] = RowOfCell(i)
    /\ pc = "done" =>
          /\ DOMAIN writes = 1..(config.width * config.height)
          /\ \A i \in DOMAIN writes : Len(writes[i]) = 1
          /\ call = "generate_map" => Len(heightmap) = config.width * config.height
          /\ call = "generate_biome_map" =>
                /\ Len(biome_ids) = config.width * config.height
                /\ \A i \in DOMAIN biome_ids : biome_ids[i] \in 0..9

C3_Witness ==
    /\ call = "generate_biome_map"
    /\ pc = "done"
    /\ config.height >= 2
    /\ config.width >= 2
    /\ \E i \in DOMAIN biome_ids : biome_ids[i] # Ocean

\* Whoever holds the grid lock took the preview lock first and still holds it.
PreviewLockFirst ==
    /\ mutex.grid_buf # Free => mutex.preview_buf = mutex.grid_buf
    /\ \A y \in DOMAIN wpc :
          /\ wpc[y] = "locked_first" => mutex.preview_buf = y
          /\ wpc[y] = "locked_both" => (mutex.preview_buf = y /\ mutex.grid_buf = y)

\* C4: every call runs to completion: under fair scheduling every worker takes
\* the preview lock, then the grid lock, writes its row and releases both, no
\* interleaving deadlocks, and the call eventually returns.
C4_RunsToCompletion ==
    /\ [](PreviewLockFirst)
    /\ [](pc # "panicked")
    /\ <>(pc = "done" /\ mutex = NoMutex /\ \A y \in DOMAIN wpc : wpc[y] = "done")

C4_Witness ==
    \E a \in DOMAIN wpc : \E b \in DOMAIN wpc :
        /\ wpc[a] = "locked_both"
        /\ wpc[b] = "computed"
        /\ \E c \in DOMAIN wpc : wpc[c] = "done"

---------------------------------------------------------------------------
(* Claims about refine_heightmap (SpecRefine).                             *)

HeldHasAllCells == Len(heightmap_data.val) = config.width * config.height

\* C8: refine_heightmap never panics on numeric configuration: for every
\* heightmap of width * height cells in [0,1] and every RefinerConfig of the
\* sliders' ranges, the call returns a grid.
C8_NeverPanics ==
    (call = "refine_heightmap" /\ HeldHasAllCells /\ HeldInUnitRange) => pc # "panicked"

\* C9: when the transformed grid has max > min, every cell v of it is replaced
\* by (v - min) / (max - min): every output cell is in [0,1], one is 0, one is
\* 1, and the output has as many cells as the input.
C9_Renormalized ==
    (/\ call = "refine_heightmap"
     /\ pc = "done"
     /\ HeldHasAllCells
     /\ FGt(max_height.val, min_height.val)) =>
        LET t == Transformed(heightmap_data.val, refiner_config, config.width * config.height)
            lo == MinOf(t)
            hi == MaxOf(t)
        IN  /\ min_height.val = lo /\ max_height.val = hi
            /\ Len(heightmap) = Len(heightmap_data.val)
            /\ \A i \in DOMAIN heightmap :
                  /\ heightmap[i] = FDiv(F32One, FSub(t[i], lo), FSub(hi, lo))
                  /\ InUnitRange(heightmap[i])
            /\ \E i \in DOMAIN heightmap : heightmap[i] = 0
            /\ \E i \in DOMAIN heightmap : heightmap[i] = F32One

C9_Witness ==
    /\ call = "refine_heightmap"
    /\ pc = "done"
    /\ HeldHasAllCells
    /\ Len(heightmap) = 4
    /\ FGt(max_height.val, min_height.val)
    /\ refiner_config.height_offset # 0
    /\ refiner_config.height_exponent = 2 * F32One
    /\ min_height.val # 0
    /\ \E i \in DOMAIN heightmap : heightmap[i] \notin {0, F32One}

\* C10 as stated: under identity parameters a heightmap whose cells are all
\* in [0,1] comes back unchanged cell for cell.
C10_IdentityUnchanged ==
    (/\ call = "refine_heightmap"
     /\ pc = "done"
     /\ refiner_config = DefaultRefinerConfig
     /\ HeldHasAllCells
     /\ HeldInUnitRange) =>
        heightmap = heightmap_data.val

\* C10: under identity parameters a heightmap whose cells are all in [0,1]
\* comes back unchanged if it is flat or if its least cell is 0 and its
\* greatest is 1; any other heightmap comes back stretched, each cell v
\* as (v - min) / (max - min).
C10_IdentityRescales ==
    (/\ call = "refine_heightmap"
     /\ pc = "done"
     /\ refiner_config = DefaultRefinerConfig
     /\ HeldHasAllCells
     /\ HeldInUnitRange) =>
        LET g == heightmap_data.val
            lo == MinOf(g)
            hi == MaxOf(g)
        IN  /\ (lo = hi \/ (lo = 0 /\ hi = F32One)) => heightmap = g
            /\ lo < hi =>
                  \A i \in DOMAIN g : heightmap[i] = FDiv(F32One, FSub(g[i], lo), FSub(hi, lo))
            /\ (lo < hi /\ (lo # 0 \/ hi # F32One)) => heightmap # g

C10_Witness ==
    /\ call = "refine_heightmap"
    /\ pc = "done"
    /\ refiner_config = DefaultRefinerConfig
    /\ HeldHasAllCells
    /\ MinOf(heightmap_data.val) = 0
    /\ MaxOf(heightmap_data.val) = F32One
    /\ heightmap = heightmap_data.val
    /\ \E i \in DOMAIN heightmap : heightmap[i] \notin {0, F32One}

---------------------------------------------------------------------------
(* Claims about the classifier (SpecClassify).                             *)

\* C11: choose_biome is total: for every elevation, slope and sea level in
\* [0,1] and every temperature and humidity of the configured ranges it
\* returns one of the 10 Biome labels.
C11_Total ==
    biome.some =>
        /\ biome.val \in Biome
        /\ Cardinality(Biome) = 10

C11_Witness ==
    /\ call = "choose_biome"
    /\ pc = "done"
    /\ biome.val = Swamp
    /\ choose_args.val.humidity > F64One

\* The ordered rule list of the specification, in exact arithmetic: t and hu
\* are f64 values, e, s and sl f32 values.
SpecRules(t, hu, e, s, sl) ==
    << <<10 * e < 8 * s, Ocean>>,
       <<e < s, Beach>>,
       <<10 * hu > 7 * F64One /\ 10 * t > 7 * F64One,
         IF 10 * e > 8 * F32One THEN Mountain ELSE Jungle>>,
       <<10 * t < 2 * F64One, Snow>>,
       <<10 * sl > 5 * F32One, Mountain>>,
       <<10 * e < 12 * s,
         IF 10 * hu > 7 * F64One THEN (IF 10 * t > 5 * F64One THEN Jungle ELSE Swamp)
         ELSE IF 10 * hu > 4 * F64One THEN (IF 10 * t > 5 * F64One THEN Forest ELSE Plains)
         ELSE (IF 10 * t > 7 * F64One THEN Desert ELSE Plains)>>,
       <<10 * e < 15 * s,
         IF 10 * hu > 5 * F64One THEN (IF 10 * t > 5 * F64One THEN Mountain ELSE Tundra)
         ELSE (IF 10 * t > 7 * F64One THEN Desert ELSE Forest)>>,
       <<TRUE,
         IF 10 * t < 3 * F64One THEN Snow
         ELSE IF 10 * t < 5 * F64One THEN Mountain
         ELSE IF 10 * t < 7 * F64One THEN Forest
         ELSE Desert>> >>

FirstMatch(rules) ==
    rules[CHOOSE i \in DOMAIN rules : rules[i][1] /\ \A j \in 1..(i - 1) : ~rules[j][1]][2]

\* C12: for every input choose_biome returns what the first matching rule of
\* the specification's ordered rule list gives.
C12_FirstMatchingRule ==
    biome.some =>
        LET a == choose_args.val
        IN  biome.val = FirstMatch(SpecRules(a.temp, a.humidity, a.elev, a.sea_level, a.slope))

C12_Witness ==
    /\ call = "choose_biome"
    /\ pc = "done"
    /\ biome.val = Tundra
    /\ choose_args.val.slope = S10(5)

\* C13: a cell whose elevation is below 0.8 * sea_level is Ocean whatever the
\* other arguments, and generate_biome_map labels every cell of a heightmap
\* that lies below 0.8 * sea_level Ocean, for every seed and BiomeConfig.
C13_BelowSeaIsOcean ==
    /\ (biome.some /\ 10 * choose_args.val.elev < 8 * choose_args.val.sea_level) =>
          biome.val = Ocean
    /\ (/\ call = "generate_biome_map"
        /\ pc = "done"
        /\ \A i \in DOMAIN heightmap_data.val :
              10 * heightmap_data.val[i] * F64One <
                  8 * FClamp(config.sea_level, 0, F64One) * F32One) =>
          \A i \in DOMAIN biome_ids : biome_ids[i] = Ocean

C13_Witness ==
    /\ call = "generate_biome_map"
    /\ pc = "done"
    /\ config.width = 4 /\ config.height = 4
    /\ config.sea_level = D10(4)
    /\ heightmap_data.val = [i \in 1..16 |-> F32One \div 10]
    /\ biome_config # DefaultBiomeConfig
    /\ \A i \in 1..16 : biome_ids[i] = Ocean

C14_Args == ChooseArgs(D10(9), D10(9), S10(9), S10(4), 0)

\* C14 as stated: elevation 0.9, sea level 0.4, temperature 0.9, humidity 0.9
\* and slope 0 classify as Desert.
C14_Desert ==
    (call = "choose_biome" /\ pc = "done" /\ choose_args.val = C14_Args) =>
        biome.val = Desert

\* C14: elevation 0.9, sea level 0.4, temperature 0.9, humidity 0.9 and slope 0
\* classify as Mountain: the hot and wet rule comes first and the elevation
\* is above 0.8.  With the same values and a humidity of at most 0.7 the
\* result is Desert.
C14_Mountain ==
    (/\ call = "choose_biome"
     /\ pc = "done"
     /\ [choose_args.val EXCEPT !.humidity = C14_Args.humidity] = C14_Args) =>
        biome.val = IF choose_args.val.humidity > D10(7) THEN Mountain ELSE Desert

C14_Witness ==
    /\ call = "choose_biome"
    /\ pc = "done"
    /\ choose_args.val = C14_Args
    /\ biome.val = Mountain

---------------------------------------------------------------------------
(* Claims about island shaping (SpecIsland).                               *)

IslandDone == pc = "done" /\ island.some /\ config.island_mode

\* C15: with island mode enabled, for every width and height > 0 and every
\* border, the cell at the grid centre (width / 2, height / 2) has edge
\* strength 0 on both axes, so the falloff does not change its height.
C15_CentreUntouched ==
    (IslandDone /\ cell = <<config.width \div 2, config.height \div 2>>) =>
        /\ island.val.locals.edge_strength_x = 0
        /\ island.val.locals.edge_strength_y = 0
        /\ island.val.h = island.val.h_before

\* C18: with island mode enabled, for every cell, border and curve, the
\* falloff factor 1 - (edge_strength_x + edge_strength_y)^curve is >= 0 and
\* the shaped height is not negative, the four corners included.
C18_FalloffNotNegative ==
    IslandDone =>
        /\ island.val.locals.falloff >= 0
        /\ island.val.h >= 0

\* C19: the edge strength of an axis is in [0,1], is 0 for a cell farther than
\* the border fraction from both edges of the axis, and is 1 on the first
\* column (x = 0) and on the last column (x = width - 1) alike.
C19_EdgeStrengthSymmetric ==
    IslandDone =>
        LET l == island.val.locals
        IN  /\ 0 <= l.edge_strength_x /\ l.edge_strength_x <= F64One
            /\ 0 <= l.edge_strength_y /\ l.edge_strength_y <= F64One
            /\ (l.xf >= l.border /\ l.xf <= F64One - l.border) => l.edge_strength_x = 0
            /\ cell[1] = 0 => l.edge_strength_x = F64One
            /\ cell[1] = config.width - 1 => l.edge_strength_x = F64One
            /\ cell[2] = 0 => l.edge_strength_y = F64One
            /\ cell[2] = config.height - 1 => l.edge_strength_y = F64One

---------------------------------------------------------------------------
(* Claims about the slope given to the classifier (SpecClassify).          *)

\* The sum of the absolute differences of cell (x, y) to its four neighbours.
NeighbourDiff(grid, w, x, y) ==
    LET idx == y * w + x + 1
        d(a, b) == IF a < b THEN b - a ELSE a - b
    IN  d(grid[idx - 1], grid[idx]) + d(grid[idx + 1], grid[idx])
        + d(grid[idx - w], grid[idx]) + d(grid[idx + w], grid[idx])

\* C20: the slope generate_biome_map gives to the classifier is, for an
\* interior cell, derived from the mean absolute difference to its four
\* neighbours (nonzero when they differ), and is 0 for a boundary cell.
C20_InteriorSlope ==
    (call = "generate_biome_map" /\ pc = "pushed") =>
        LET x == cell[1]
            y == cell[2]
            interior == x > 0 /\ y > 0 /\ x < config.width - 1 /\ y < config.height - 1
        IN  /\ ~interior => choose_args.val.slope = 0
            /\ (interior /\ NeighbourDiff(heightmap_data.val, config.width, x, y) > 0) =>
                  choose_args.val.slope > 0

---------------------------------------------------------------------------
(* Claims about the application (SpecApp).                                 *)

\* C16: for every sequence of UI actions, refine_heightmap and
\* generate_biome_map are invoked only with a heightmap held, and a stage
\* button pressed with no heightmap held does not crash the application.
\* A handler that panics leaves heightmap_data as it found it, so a crashed
\* application holding no heightmap crashed on a button pressed without one.
C16_NoCrashWithoutHeightmap ==
    ~(call = "app" /\ pc = "panicked" /\ ~heightmap_data.some)

\* C17: whenever a heightmap is held its length is config.width *
\* config.height, after any sequence of width and height edits, Quick Resize,
\* Generate Map, Load Map and Apply Refinement, so the later stages and the
\* export index within bounds and do not panic.
C17_HeldGridMatchesConfig ==
    (call = "app" /\ heightmap_data.some) =>
        /\ Len(heightmap_data.val) = config.width * config.height
        /\ pc # "panicked"

---------------------------------------------------------------------------
(* Claims about the noise channels.                                        *)

\* C21: the five noise channels (base, mid and detail octaves, temperature,
\* humidity) are sampled with five different seeds, each the base seed plus
\* its own fixed offset; no two channels share a seed.
C21_ChannelSeedsDistinct ==
    (call = "generate_map" /\ pc = "done") =>
        \A c1, c2 \in DOMAIN ChannelSeeds(seed) :
            c1 # c2 => ChannelSeeds(seed)[c1] # ChannelSeeds(seed)[c2]

---------------------------------------------------------------------------
(* Claims about the refiner's passes (SpecRefine).                         *)

C23_FlatStaysUnnormalized ==
    (/\ call = "refine_heightmap"
     /\ pc = "done"
     /\ HeldHasAllCells
     /\ ~IsNaN(min_height.val)
     /\ max_height.val = min_height.val) =>
        /\ Len(heightmap) = Len(heightmap_data.val)
        /\ \A i \in DOMAIN heightmap :
              /\ heightmap[i] = TransformCell(heightmap_data.val[i], refiner_config)
              /\ heightmap[i] = min_height.val

C23_Witness ==
    /\ call = "refine_heightmap"
    /\ pc = "done"
    /\ HeldHasAllCells
    /\ max_height.val = min_height.val
    /\ Len(heightmap) = 4
    /\ \A i \in DOMAIN heightmap : heightmap[i] = 4 * F32One

---------------------------------------------------------------------------
(* Claims about the application's configuration and maps (SpecApp).        *)

\* C24: after any sequence of width and height edits, Quick Resize and Load
\* Map, Generate Map calls generate_map with config.width > 0, config.height
\* > 0 and the three scales > 0.  heightmap_dims holds the width and height
\* the held grid was made with.
C24_ConfigInvariantAtGenerate ==
    call = "app" =>
        /\ config.scale_base > 0 /\ config.scale_mid > 0 /\ config.scale_detail > 0
        /\ heightmap_data.some => (heightmap_dims[1] > 0 /\ heightmap_dims[2] > 0)

\* C25: whenever a biome map is held it is index-aligned with the held
\* heightmap: it has as many cells, and it is the classification of the
\* heightmap currently held.
C25_BiomeMapOfHeldHeightmap ==
    (call = "app" /\ biome_map.some) =>
        /\ heightmap_data.some
        /\ Len(biome_map.val) = Len(heightmap_data.val)
        /\ \E s \in AppBiomeSeeds :
              biome_map.val =
                  generate_biome_map([config EXCEPT !.width = heightmap_dims[1],
                                                    !.height = heightmap_dims[2]],
                                     biome_config, heightmap_data.val, s)

---------------------------------------------------------------------------
(* Further claims about the classifier (SpecClassify).                     *)

\* C26: choose_biome returns Ocean or Beach exactly for the inputs whose
\* elevation is below the sea level, whatever the temperature, humidity and
\* slope; generate_biome_map passes the sea level clamped to [0,1].
C26_WaterIffBelowSeaLevel ==
    biome.some =>
        /\ (biome.val \in {Ocean, Beach}) <=>
               (choose_args.val.elev < choose_args.val.sea_level)
        /\ 0 <= choose_args.val.sea_level /\ choose_args.val.sea_level <= F32One

C26_Witness ==
    /\ call = "generate_biome_map"
    /\ pc = "pushed"
    /\ config.sea_level > F64One
    /\ biome.val = Beach
    /\ choose_args.val.elev = S10(9)
    /\ choose_args.val.sea_level = F32One

---------------------------------------------------------------------------
(* Claims about u32 arithmetic (SpecWords).                                *)

\* C27: width * height never overflows u32 for a width and height the
\* application can hold: the call does not panic on it and the grid it
\* allocates has exactly width * height cells.
C27_CellCountNeverOverflows ==
    /\ ~(pc = "panicked" /\ ~alloc_size.some)
    /\ alloc_size.some =>
          WideMul(config.width, config.height) = <<0, 0, alloc_size.val[1], alloc_size.val[2]>>

\* C28: for every u32 seed, seed + 2000 is computed without overflow and
\* differs from the temperature channel's seed.
C28_HumSeedNeverOverflows ==
    /\ ~(pc = "panicked" /\ alloc_size.some)
    /\ hum_seed.some =>
          /\ WideAdd(seed, U32(2000)) = <<0, hum_seed.val[1], hum_seed.val[2]>>
          /\ hum_seed.val # TempSeed(seed)

---------------------------------------------------------------------------
(* Claims about the seed controls (SpecSeeds) and the navigation (SpecApp). *)

\* C29: Generate Map, and likewise Generate Biome Map, with use_random_seed
\* set leaves in the config the seed it passed to the generator; with
\* use_random_seed clear it passes the stored seed and leaves it as it was.
C29_StoredSeedIsPassedSeed ==
    [][/\ AppGenerateMap =>
             /\ seed' = config'.seed
             /\ ~config.use_random_seed => (config'.seed = config.seed /\ seed' = config.seed)
       /\ AppGenerateBiomeMap =>
             /\ seed' = biome_config'.seed
             /\ ~biome_config.use_random_seed =>
                    (biome_config'.seed = biome_config.seed /\ seed' = biome_config.seed)]_vars

C29_Witness ==
    /\ call = "app"
    /\ pc = "idle"
    /\ heightmap_data.some
    /\ biome_map.some
    /\ config.use_random_seed
    /\ config.seed = MaxSeed
    /\ ~biome_config.use_random_seed
    /\ biome_config.seed = 12345
    /\ seed = 12345

\* The place of a step in the chain Terrain, Refinement, Biomes, Water,
\* Objects, Export.
StepOrder == <<"Terrain", "Refinement", "Biomes", "Water", "Objects", "Export">>
StepIndex(step) == CHOOSE i \in DOMAIN StepOrder : StepOrder[i] = step

\* C30: the navigation is the linear chain Terrain, Refinement, Biomes, Water,
\* Objects, Export: Next moves one step forward and is unavailable at Export,
\* Back one step backward and is unavailable at Terrain, each undoes the
\* other, and neither changes the held heightmap, the biome map or a config.
C30_LinearNavigation ==
    /\ []((call = "app" /\ pc = "idle") =>
              /\ current_step \in GenerationStep
              /\ ENABLED Next_ <=> current_step # "Export"
              /\ ENABLED Back <=> current_step # "Terrain"
              /\ current_step # "Export" => PrevStep(NextStep(current_step)) = current_step
              /\ current_step # "Terrain" => NextStep(PrevStep(current_step)) = current_step)
    /\ [][/\ Next_ => StepIndex(current_step') = StepIndex(current_step) + 1
          /\ Back => StepIndex(current_step') = StepIndex(current_step) - 1
          /\ current_step' # current_step =>
                UNCHANGED <<config, biome_config, refiner_config, heightmap_data, biome_map,
                            preview, exported, pc>>]_vars

C30_Witness ==
    /\ call = "app"
    /\ pc = "idle"
    /\ current_step = "Export"
    /\ heightmap_data.some
    /\ biome_map.some
    /\ exported.some

====
